---- MODULE Spec2Model ----
(***************************************************************************)
(* Model of functions/api/instagram/publish.js: the handler onRequestPost  *)
(* that publishes a rating to Instagram, its poller waitForMediaStatus and *)
(* the helper functions it calls.  Every await of the handler is a step of *)
(* the model; the answers of the platform, of the identity provider and of *)
(* the database are chosen nondeterministically from small sets.           *)
(***************************************************************************)
EXTENDS Integers, Sequences, FiniteSets, TLC

\* ------------------------------------------------------------------ bounds
MaxImages == 2

\* ------------------------------------------------------- program constants
maxAttempts == 10

\* ---------------------------------------------------------- value domains
Keys == {"imgA", "imgB"}

RECURSIVE SeqsUpTo(_, _)
SeqsUpTo(S, n) ==
    IF n = 0 THEN {<<>>}
    ELSE LET shorter == SeqsUpTo(S, n - 1)
         IN  shorter \cup {Append(s, x) : s \in {t \in shorter : Len(t) = n - 1}, x \in S}

KeyLists == SeqsUpTo(Keys, MaxImages)

\* body.overrideImageKeys: an array of keys, or absent or not an array
Overrides ==
    {[isArray |-> TRUE, items |-> k] : k \in KeyLists} \cup {[isArray |-> FALSE, items |-> <<>>]}

\* ratings.imageUrl: a string holding a JSON array of keys, a string holding
\* another JSON value that is not falsy, a string that is not JSON, or a
\* value that is neither a string nor an array (null) or parses to a falsy value
ImageColumns ==
    {[kind |-> "jsonArray", items |-> k] : k \in KeyLists} \cup
    {[kind |-> x, items |-> <<>>] : x \in {"jsonOther", "invalid", "null"}}

\* who is calling: no bearer token, a token the identity provider rejects,
\* a user without a row in users, or a user with the given role
Callers == {"noToken", "badToken", "unknownUser", "user", "admin", "super_admin"}

\* values of system_configs; "" stands for a missing row or an empty value
Tokens == {"", "tokA"}

UserIds == {"", "igU1"}

Templates == {"", "tplX"}

\* status_code values the platform can report; "NONE" is a body without a
\* status_code (an API-level error answer), "NETFAIL" a fetch that rejects
StatusCodes == {"FINISHED", "READY", "ERROR", "FAILED", "IN_PROGRESS"}

StatusAnswers == StatusCodes \cup {"NONE", "NETFAIL"}

\* error objects of a platform answer; "" and 0 are the absent fields
NoError == [message |-> "", type |-> "", code |-> 0, error_subcode |-> 0, fbtrace_id |-> ""]

ErrorBodies ==
    [message : {"", "Permission denied"}, type : {"", "OAuthException"}, code : {0, 190},
     error_subcode : {0, 33}, fbtrace_id : {"", "TR1"}]

Origin == "https://site"

VARIABLES
    caller,        \* input: who sends the request
    body,          \* input: [ratingId, overrideImageKeys] of the request body
    store,         \* system_configs: IG_ACCESS_TOKEN, IG_USER_ID, IG_TEMPLATE
    ratingRow,     \* ratings table: [exists, imageUrl] of the requested rating
    pc,            \* position of onRequestPost
    accessToken,   \* local of onRequestPost
    igUserId,      \* local of onRequestPost
    template,      \* local of onRequestPost
    imageKeys,     \* local of onRequestPost
    idx,           \* number of keys of imageKeys the for loop has taken
    containerIds,  \* local of onRequestPost
    cur,           \* itemData.id / carouselData.id handed to the poller
    attempts,      \* local of waitForMediaStatus
    sleeps,        \* sleeps of the running waitForMediaStatus call
    reads,         \* status reads of the running waitForMediaStatus call
    priorPending,  \* all of these reads before the latest answered IN_PROGRESS
    lastRead,      \* [id, status] of the latest status read
    finishedSeen,  \* containers for which the platform has answered FINISHED
    errorSeen,     \* the platform has answered a read of the running wait with
                   \* ERROR or FAILED, or has rejected it
    waitStatus,    \* per container id: Pending until its waitForMediaStatus call
                   \* ends, then Ready (returned), Error (threw) or TimedOut
    mediaReqs,     \* POST /media requests received by the platform
    publishReqs,   \* creation_id of each POST /media_publish received
    containers,    \* the platform's containers: [role, req], the id is the index
    trouble,       \* the first remote step that went wrong: [kind, reqs, net,
                   \* body], reqs the number of POST /media sent until then,
                   \* net telling a rejected fetch, body the answer's error object
    resp,          \* the Response of onRequestPost
    publishAnswer, \* the platform's answer to POST /media_publish: [kind, id]
    dbReads,       \* the tables onRequestPost has read after the role check
    tplText,       \* buildCaption: its template argument, a sequence of characters
    ratingData,    \* buildCaption: its data argument
    captionOut,    \* buildCaption: [done, text], its result once it has run
    call,          \* concurrent publish requests: per request its position, its
                   \* locals and its Response
    update,        \* the configuration update (POST of config.js): its position,
                   \* its locals, the writes still to run and its Response
    igMedia,       \* the platform's containers when several requests run
    igPosts,       \* the media_publish calls the platform has accepted
    used,          \* per request: the <<token, account>> pairs of its remote calls
    finished,      \* the containers for which a status read answered FINISHED
    initialStore,  \* system_configs before the update
    firstConfigs   \* the configs the first publish request has read

vars == <<caller, body, store, ratingRow, pc, accessToken, igUserId, template,
          imageKeys, idx, containerIds, cur, attempts, sleeps, reads, priorPending,
          lastRead, finishedSeen, errorSeen, waitStatus, mediaReqs, publishReqs,
          containers, trouble, resp, publishAnswer, dbReads, tplText, ratingData,
          captionOut, call, update, igMedia, igPosts, used, finished, initialStore,
          firstConfigs>>

\* the state of the concurrent requests
sharedVars == <<call, update, igMedia, igPosts, used, finished, initialStore, firstConfigs>>

captionVars == <<tplText, ratingData, captionOut>>

inputs == <<caller, body, store, ratingRow>>

locals == <<accessToken, igUserId, template, imageKeys, idx, containerIds>>

pollVars == <<cur, attempts, sleeps, reads, priorPending, lastRead, finishedSeen, errorSeen,
              waitStatus>>

platform == <<mediaReqs, publishReqs, publishAnswer, containers>>

nextId == Len(containers) + 1

NoTrouble == [kind |-> "none", reqs |-> 0, net |-> FALSE, body |-> NoError]

Trouble(kind, n) == [kind |-> kind, reqs |-> n, net |-> FALSE, body |-> NoError]

\* a fetch that rejected
TroubleNet(kind, n) == [kind |-> kind, reqs |-> n, net |-> TRUE, body |-> NoError]

\* an answer that is not ok or lacks the id, with error object e
TroubleBody(kind, n, e) == [kind |-> kind, reqs |-> n, net |-> FALSE, body |-> e]

NoAnswer == [kind |-> "none", id |-> 0]

NoResp == [status |-> 0, error |-> <<>>, publishId |-> 0]

\* ------------------------------------------------------------- messages
\* A message is the sequence of the pieces the code concatenates.
Includes(msg, piece) == \E i \in DOMAIN msg : msg[i] = piece

RECURSIVE Join(_, _)
Join(parts, sep) ==
    IF Len(parts) = 0 THEN <<>>
    ELSE IF Len(parts) = 1 THEN parts[1]
    ELSE parts[1] \o <<sep>> \o Join(Tail(parts), sep)

\* a classifier that puts the code before the type and drops the trace id
formatInstagramErrorCodeFirst(errorInfo, fallbackMessage) ==
    LET first  == IF errorInfo.message # "" THEN <<errorInfo.message>> ELSE <<fallbackMessage>>
        type   == IF errorInfo.type # "" THEN << <<"Type: ", errorInfo.type>> >> ELSE <<>>
        code   == IF errorInfo.code # 0 THEN << <<"Code: ", ToString(errorInfo.code)>> >> ELSE <<>>
        sub    == IF errorInfo.error_subcode # 0
                  THEN << <<"Subcode: ", ToString(errorInfo.error_subcode)>> >> ELSE <<>>
        parts  == <<first>> \o code \o type \o sub
    IN  <<"Instagram Error: ">> \o Join(parts, " | ")

formatInstagramError(errorInfo, fallbackMessage) ==
    LET first  == IF errorInfo.message # "" THEN <<errorInfo.message>> ELSE <<fallbackMessage>>
        type   == IF errorInfo.type # "" THEN << <<"Type: ", errorInfo.type>> >> ELSE <<>>
        code   == IF errorInfo.code # 0 THEN << <<"Code: ", ToString(errorInfo.code)>> >> ELSE <<>>
        sub    == IF errorInfo.error_subcode # 0
                  THEN << <<"Subcode: ", ToString(errorInfo.error_subcode)>> >> ELSE <<>>
        trace  == IF errorInfo.fbtrace_id # ""
                  THEN << <<"Trace ID: ", errorInfo.fbtrace_id>> >> ELSE <<>>
        parts  == <<first>> \o type \o code \o sub \o trace
    IN  <<"Instagram Error: ">> \o Join(parts, " | ")

ProcessingFailedMessage(containerId) ==
    <<"Media processing failed for container ", ToString(containerId)>>

TimeoutMessage(containerId) ==
    <<"Timeout waiting for media ", ToString(containerId), " to process">>

NetworkFailureMessage == <<"fetch failed">>

PermissionDeniedMessage == <<"Permission denied", ". Super admin role required.">>

ConfigIncompleteMessage ==
    <<"Instagram configuration is incomplete. Please set the token and business account ID.">>

\* the catch block of onRequestPost
CatchStatus(msg) == IF Includes(msg, "Permission denied") THEN 403 ELSE 400

ErrorResponse(msg) == [status |-> CatchStatus(msg), error |-> msg, publishId |-> 0]

ImageUrl(key) == <<Origin, "/api/image/", key>>

\* the arguments and the result of buildCaption while it has not been called
NoRating ==
    [title |-> <<>>, score |-> [kind |-> "null", n |-> 0], review |-> <<>>,
     reviewer |-> <<>>, cigarName |-> <<>>, origin |-> <<>>, size |-> <<>>,
     grade |-> <<>>, gradeName |-> <<>>]

NoCaption == [done |-> FALSE, text |-> <<>>]

\* ------------------------------------------------ concurrent requests
\* the publish requests that run side by side, all for the same ratingId
Calls == {1, 2}

\* the pending answers the platform gives to the status reads of one
\* container when several requests run
MaxPending == 1

NoConfigs == [set |-> FALSE, IG_ACCESS_TOKEN |-> "", IG_USER_ID |-> "", IG_TEMPLATE |-> ""]

\* a publish request that has not arrived; after tells whether the update
\* had completed when the request read the configs
NoCall ==
    [pc |-> "idle", after |-> FALSE, accessToken |-> "", igUserId |-> "", template |-> "",
     imageKeys |-> <<>>, idx |-> 0, containerIds |-> <<>>, cur |-> 0, attempts |-> 0,
     status |-> 0, error |-> <<>>, publishId |-> 0]

\* a configuration update that has not arrived
NoUpdate ==
    [pc |-> "idle", providedToken |-> "", providedTemplate |-> "", finalToken |-> "",
     resolvedUserId |-> "", finalTemplate |-> "", pending |-> {}, status |-> 0]

\* --------------------------------------------------------------- Init
Init ==
    /\ caller \in Callers
    /\ body \in [ratingId : {"", "r1"}, overrideImageKeys : Overrides]
    /\ store \in [IG_ACCESS_TOKEN : Tokens, IG_USER_ID : UserIds, IG_TEMPLATE : Templates]
    /\ ratingRow \in [exists : BOOLEAN, imageUrl : ImageColumns]
    /\ pc = "start"
    /\ accessToken = ""
    /\ igUserId = ""
    /\ template = ""
    /\ imageKeys = <<>>
    /\ idx = 0
    /\ containerIds = <<>>
    /\ cur = 0
    /\ attempts = 0
    /\ sleeps = 0
    /\ reads = 0
    /\ priorPending = TRUE
    /\ lastRead = [id |-> 0, status |-> ""]
    /\ finishedSeen = {}
    /\ errorSeen = FALSE
    /\ waitStatus = <<>>
    /\ mediaReqs = <<>>
    /\ publishReqs = <<>>
    /\ containers = <<>>
    /\ trouble = NoTrouble
    /\ resp = NoResp
    /\ publishAnswer = NoAnswer
    /\ dbReads = <<>>
    /\ call = [r \in Calls |-> NoCall]
    /\ update = [NoUpdate EXCEPT !.pc = "off"]
    /\ igMedia = <<>>
    /\ igPosts = <<>>
    /\ used = [r \in Calls |-> {}]
    /\ finished = {}
    /\ initialStore = store
    /\ firstConfigs = NoConfigs
    /\ tplText = <<>>
    /\ ratingData = NoRating
    /\ captionOut = NoCaption

\* ------------------------------------------------------------ buildCaption
\* A text is a sequence of characters; a run of characters that are neither
\* braces nor white space is kept as one element, a word.
MaxTemplateLen == 10

\* DEFAULT_TEMPLATE, its two Chinese words transliterated
DEFAULT_TEMPLATE ==
    <<"{", "{", "title", "}", "}", " ", "huode", " ", "{", "{", "score", "}", "}", " ",
      "fen!", " ", "{", "{", "review", "}", "}", " ", "#Cigar", " ", "#Pistacho.">>

GeneratedTemplates == SeqsUpTo({"{", "}", "x"}, MaxTemplateLen)

\* the template that is the score placeholder alone
ScoreTemplate == <<"{", "{", "score", "}", "}">>

FixedTemplates ==
    { <<>>,
      ScoreTemplate,
      <<"{", "{", " ", "Title", " ", "}", "}", " ", "{", "{", "score", "}", "}">>,
      <<"{", "{", "name", "}", "}", " ", "{", "{", "unknown", "}", "}", "{", "{", "GRADENAME", "}", "}">> }

\* data.score: null or undefined, the empty string fetchRating puts for a
\* NULL column, a string that is no number, an infinite number, or the number
\* n / 1000 (n >= 0, not half way between two hundredths)
Scores ==
    {[kind |-> k, n |-> 0] : k \in {"null", "empty", "nan", "infinite"}} \cup
    {[kind |-> "number", n |-> n] : n \in {0, 7000, 12300, 12346}}

RatingDatas ==
    [title : {<<>>, <<"T">>}, score : Scores, review : {<<>>}, reviewer : {<<>>},
     cigarName : {<<>>, <<"N">>}, origin : {<<>>}, size : {<<>>}, grade : {<<>>},
     gradeName : {<<"G">>}]

\* the letters of a word in lower case (the i flag of the key patterns)
Lower(w) ==
    IF w = "Title" THEN "title"
    ELSE IF w = "GRADENAME" \/ w = "gradeName" THEN "gradename"
    ELSE w

\* formatScore
formatScore(score) ==
    IF score.kind \in {"null", "nan", "infinite"} THEN <<>>
    ELSE LET n      == IF score.kind = "empty" THEN 0 ELSE score.n
             cents  == (n + 5) \div 10
             whole  == cents \div 100
             frac   == cents % 100
         IN  IF frac = 0 THEN <<ToString(whole)>>
             ELSE IF frac % 10 = 0 THEN <<ToString(whole), ".", ToString(frac \div 10)>>
             ELSE <<ToString(whole), ".", ToString(frac \div 10), ToString(frac % 10)>>

\* score of fetchRating: rating.normalizedScore ?? ''
ScoreOfColumn(column) ==
    IF column.kind = "null" THEN [kind |-> "empty", n |-> 0] ELSE column

RECURSIVE SkipSpaces(_, _)
SkipSpaces(s, i) == IF i <= Len(s) /\ s[i] = " " THEN SkipSpaces(s, i + 1) ELSE i

RECURSIVE FirstClose(_, _)
FirstClose(s, i) == IF i > Len(s) \/ s[i] = "}" THEN i ELSE FirstClose(s, i + 1)

\* the index where a match of {{\s*key\s*}} (flag i) that starts at i ends, 0
\* when there is none
MatchKeyEnd(s, i, key) ==
    IF i + 1 <= Len(s) /\ s[i] = "{" /\ s[i + 1] = "{"
    THEN LET j == SkipSpaces(s, i + 2)
             k == SkipSpaces(s, j + 1)
         IN  IF j <= Len(s) /\ Lower(s[j]) = Lower(key)
                /\ k + 1 <= Len(s) /\ s[k] = "}" /\ s[k + 1] = "}"
             THEN k + 1 ELSE 0
    ELSE 0

\* the index where a match of {{\s*[^}]+\s*}} that starts at i ends, 0 when
\* there is none
MatchAnyEnd(s, i) ==
    IF i + 1 <= Len(s) /\ s[i] = "{" /\ s[i + 1] = "{"
    THEN LET j == FirstClose(s, i + 2)
         IN  IF j > i + 2 /\ j + 1 <= Len(s) /\ s[j + 1] = "}" THEN j + 1 ELSE 0
    ELSE 0

\* caption.replace(regex, value) for the pattern of key, flags g and i
RECURSIVE ReplaceKey(_, _, _, _)
ReplaceKey(s, i, key, value) ==
    IF i > Len(s) THEN <<>>
    ELSE LET e == MatchKeyEnd(s, i, key)
         IN  IF e > 0 THEN value \o ReplaceKey(s, e + 1, key, value)
             ELSE <<s[i]>> \o ReplaceKey(s, i + 1, key, value)

\* caption.replace(/{{\s*[^}]+\s*}}/g, '')
RECURSIVE RemovePlaceholders(_, _)
RemovePlaceholders(s, i) ==
    IF i > Len(s) THEN <<>>
    ELSE LET e == MatchAnyEnd(s, i)
         IN  IF e > 0 THEN RemovePlaceholders(s, e + 1)
             ELSE <<s[i]>> \o RemovePlaceholders(s, i + 1)

\* the replacements object of buildCaption, in the order of its keys
Replacements(data) ==
    << <<"title", data.title>>,
       <<"score", formatScore(data.score)>>,
       <<"review", data.review>>,
       <<"reviewer", data.reviewer>>,
       <<"name", IF data.cigarName # <<>> THEN data.cigarName ELSE data.title>>,
       <<"origin", data.origin>>,
       <<"size", data.size>>,
       <<"grade", data.grade>>,
       <<"gradeName", data.gradeName>> >>

RECURSIVE ReplaceAll(_, _, _)
ReplaceAll(s, reps, n) ==
    IF n > Len(reps) THEN s
    ELSE ReplaceAll(ReplaceKey(s, 1, reps[n][1], reps[n][2]), reps, n + 1)

buildCaption(tpl, data) ==
    LET caption == IF tpl # <<>> THEN tpl ELSE DEFAULT_TEMPLATE
    IN  RemovePlaceholders(ReplaceAll(caption, Replacements(data), 1), 1)

\* ------------------------------------------------- control of the handler
\* the catch block: a thrown error ends the request with an error Response
Throw(msg) ==
    /\ pc' = "failed"
    /\ resp' = ErrorResponse(msg)

\* a loop test that lets one attempt too many through
LoopCondInclusive(a) == a <= maxAttempts

\* while (attempts < maxAttempts)
LoopCond(a) == a < maxAttempts

\* a poller that returns on every status_code but ERROR
ClassifyStatusNotError(status) ==
    IF status = "ERROR" THEN "error" ELSE "ready"

\* what waitForMediaStatus does with data.status_code
ClassifyStatus(status) ==
    IF status = "FINISHED" THEN "ready"
    ELSE IF status = "ERROR" THEN "error"
    ELSE "pending"

\* a loop that swallows the error of an item's wait and goes on
AfterItemWaitSwallow(thrown, i, n) ==
    IF i < n THEN "createItem" ELSE "createCarousel"

\* where the for loop goes when the wait for item number i of n has ended,
\* thrown telling whether waitForMediaStatus threw
AfterItemWait(thrown, i, n) ==
    IF thrown THEN "failed"
    ELSE IF i < n THEN "createItem"
    ELSE "createCarousel"

\* a handler that creates the carousel container again when its wait threw
AfterCarouselWaitRetry(thrown) == IF thrown THEN "createCarousel" ELSE "publish"

\* where the handler goes when the wait for the carousel container has ended
AfterCarouselWait(thrown) == IF thrown THEN "failed" ELSE "publish"

\* ------------------------------------------------------------- actions
\* a role check that lets every admin through
RoleAllowedAnyAdmin(c) == c \in {"admin", "super_admin"}

\* the negation of: !caller || caller.role !== 'super_admin'
RoleAllowed(c) == c = "super_admin"

\* validateSuperAdmin and ensureSystemConfigTable
ValidateSuperAdmin ==
    /\ pc = "start"
    /\ IF caller = "noToken" THEN Throw(<<"Missing authorization token.">>)
       ELSE IF caller = "badToken" THEN Throw(<<"Invalid token.">>)
       ELSE IF ~RoleAllowed(caller) THEN Throw(PermissionDeniedMessage)
       ELSE pc' = "body" /\ resp' = resp
    /\ UNCHANGED <<sharedVars, captionVars, inputs, locals, pollVars, platform, trouble, dbReads>>

\* request.json() and the ratingId check
ReadBody ==
    /\ pc = "body"
    /\ IF body.ratingId = ""
       THEN /\ pc' = "failed"
            /\ resp' = [status |-> 400, error |-> <<"ratingId is required.">>, publishId |-> 0]
       ELSE pc' = "config" /\ resp' = resp
    /\ UNCHANGED <<sharedVars, captionVars, inputs, locals, pollVars, platform, trouble, dbReads>>

\* a completeness check that forgets the business account id
ConfigIncompleteTokenOnly(token, userId) == token = ""

\* if (!accessToken || !igUserId)
ConfigIncomplete(token, userId) == token = "" \/ userId = ""

\* getConfigValues and the completeness check
LoadConfig ==
    /\ pc = "config"
    /\ dbReads' = Append(dbReads, "system_configs")
    /\ accessToken' = store.IG_ACCESS_TOKEN
    /\ igUserId' = store.IG_USER_ID
    /\ template' = IF store.IG_TEMPLATE # "" THEN store.IG_TEMPLATE ELSE "DEFAULT_TEMPLATE"
    /\ IF ConfigIncomplete(accessToken', igUserId')
       THEN Throw(ConfigIncompleteMessage)
       ELSE pc' = "rating" /\ resp' = resp
    /\ UNCHANGED <<sharedVars, captionVars, inputs, imageKeys, idx, containerIds, pollVars, platform, trouble>>

\* imageUrls of fetchRating: [isArray, items]
ParseImageUrl(col) ==
    IF col.kind = "jsonArray" THEN [isArray |-> TRUE, items |-> col.items]
    ELSE IF col.kind = "jsonOther" THEN [isArray |-> FALSE, items |-> <<>>]
    ELSE [isArray |-> TRUE, items |-> <<>>]

\* Array.isArray(body?.overrideImageKeys) ? body.overrideImageKeys : []
TargetKeys(override) == IF override.isArray THEN override.items ELSE <<>>

\* a choice that prefers the images of the rating
ResolveImageKeysRatingFirst(targetKeys, ratingImages) ==
    IF ratingImages.isArray /\ Len(ratingImages.items) > 0 THEN ratingImages
    ELSE [isArray |-> TRUE, items |-> targetKeys]

\* targetKeys.length > 0 ? targetKeys : rating.imageUrls
ResolveImageKeys(targetKeys, ratingImages) ==
    IF Len(targetKeys) > 0 THEN [isArray |-> TRUE, items |-> targetKeys]
    ELSE ratingImages

\* !Array.isArray(imageKeys) || imageKeys.length === 0
NoImage(keys) == ~keys.isArray \/ Len(keys.items) = 0

\* fetchRating and the choice of the image keys
FetchRating ==
    /\ pc = "rating"
    /\ dbReads' = Append(dbReads, "ratings")
    /\ IF ~ratingRow.exists
       THEN /\ Throw(<<"Rating not found.">>)
            /\ UNCHANGED <<imageKeys, idx>>
       ELSE LET targetKeys == TargetKeys(body.overrideImageKeys)
                keys == ResolveImageKeys(targetKeys, ParseImageUrl(ratingRow.imageUrl))
            IN  /\ imageKeys' = keys.items
                /\ IF NoImage(keys)
                   THEN Throw(<<"This rating has no image to publish.">>) /\ idx' = idx
                   ELSE pc' = "createItem" /\ resp' = resp /\ idx' = 1
    /\ UNCHANGED <<sharedVars, captionVars, inputs, accessToken, igUserId, template, containerIds, pollVars,
                   platform, trouble>>

\* the state of a waitForMediaStatus call that starts for container id
StartWait(id) ==
    /\ cur' = id
    /\ attempts' = 0
    /\ sleeps' = 0
    /\ reads' = 0
    /\ priorPending' = TRUE
    /\ errorSeen' = FALSE
    /\ waitStatus' = Append(waitStatus, "Pending")
    /\ UNCHANGED <<lastRead, finishedSeen>>

ItemRequest(key) ==
    [role |-> "item", image_url |-> ImageUrl(key), is_carousel_item |-> TRUE,
     children |-> <<>>, hasCaption |-> FALSE, access_token |-> accessToken,
     account |-> igUserId]

\* the POST /media of one loop iteration and the check of its answer
CreateItem ==
    /\ pc = "createItem"
    /\ mediaReqs' = Append(mediaReqs, ItemRequest(imageKeys[idx]))
    /\ \/ \* the fetch rejects
          /\ Throw(NetworkFailureMessage)
          /\ trouble' = TroubleNet("createFailed", Len(mediaReqs'))
          /\ UNCHANGED <<containers, pollVars>>
       \/ \* ok with an id
          /\ containers' = Append(containers, [role |-> "item", req |-> Len(mediaReqs')])
          /\ StartWait(nextId)
          /\ pc' = "pollItem"
          /\ UNCHANGED <<resp, trouble>>
       \/ \* not ok, or ok without an id
          \E e \in ErrorBodies :
             /\ Throw(formatInstagramError(e, "Failed to upload carousel item"))
             /\ trouble' = TroubleBody("createFailed", Len(mediaReqs'), e)
             /\ UNCHANGED <<containers, pollVars>>
    /\ UNCHANGED <<sharedVars, captionVars, inputs, locals, publishReqs, publishAnswer, dbReads>>

\* one turn of the loop of waitForMediaStatus up to its sleep: the status
\* read and the two checks of data.status_code
PollRead ==
    /\ pc \in {"pollItem", "pollCarousel"}
    /\ LoopCond(attempts)
    /\ \E answer \in StatusAnswers :
         LET thrown == answer = "NETFAIL" \/ ClassifyStatus(answer) = "error"
             ready  == answer # "NETFAIL" /\ ClassifyStatus(answer) = "ready"
             msg    == IF answer = "NETFAIL" THEN NetworkFailureMessage
                       ELSE ProcessingFailedMessage(cur)
             after  == IF pc = "pollItem"
                       THEN AfterItemWait(thrown, idx, Len(imageKeys))
                       ELSE AfterCarouselWait(thrown)
         IN  /\ reads' = reads + 1
             /\ priorPending' = (priorPending /\ (reads = 0 \/ lastRead.status = "IN_PROGRESS"))
             /\ lastRead' = [id |-> cur, status |-> answer]
             /\ finishedSeen' = IF answer = "FINISHED" THEN finishedSeen \cup {cur}
                                ELSE finishedSeen
             /\ errorSeen' = (errorSeen \/ answer \in {"ERROR", "FAILED", "NONE"})
             /\ waitStatus' = [waitStatus EXCEPT ![cur] = IF ready THEN "Ready"
                                                          ELSE IF thrown THEN "Error"
                                                          ELSE @]
             /\ trouble' = IF trouble.kind # "none" THEN trouble
                           ELSE IF answer = "NETFAIL"
                           THEN TroubleNet("pollFailed", Len(mediaReqs))
                           ELSE IF answer = "ERROR"
                           THEN Trouble("pollFailed", Len(mediaReqs))
                           ELSE IF answer # "FINISHED" /\ reads' = 10
                           THEN Trouble("pollExhausted", Len(mediaReqs))
                           ELSE trouble
             /\ IF thrown \/ ready
                THEN /\ pc' = after
                     /\ resp' = IF after = "failed" THEN ErrorResponse(msg) ELSE resp
                     /\ containerIds' = IF pc = "pollItem" /\ ready
                                        THEN Append(containerIds, cur) ELSE containerIds
                     /\ idx' = IF pc = "pollItem" /\ after = "createItem"
                               THEN idx + 1 ELSE idx
                ELSE /\ pc' = IF pc = "pollItem" THEN "sleepItem" ELSE "sleepCarousel"
                     /\ UNCHANGED <<resp, containerIds, idx>>
    /\ UNCHANGED <<sharedVars, captionVars, inputs, accessToken, igUserId, template, imageKeys, cur,
                   attempts, sleeps, platform, dbReads>>

\* the sleep of waitForMediaStatus, attempts++ and the loop test; the throw
\* after the loop when the test fails
PollSleep ==
    /\ pc \in {"sleepItem", "sleepCarousel"}
    /\ sleeps' = sleeps + 1
    /\ attempts' = attempts + 1
    /\ IF LoopCond(attempts')
       THEN /\ pc' = IF pc = "sleepItem" THEN "pollItem" ELSE "pollCarousel"
            /\ UNCHANGED <<resp, idx>>
       ELSE LET after == IF pc = "sleepItem"
                         THEN AfterItemWait(TRUE, idx, Len(imageKeys))
                         ELSE AfterCarouselWait(TRUE)
            IN  /\ pc' = after
                /\ resp' = IF after = "failed" THEN ErrorResponse(TimeoutMessage(cur)) ELSE resp
                /\ idx' = IF pc = "sleepItem" /\ after = "createItem" THEN idx + 1 ELSE idx
    /\ waitStatus' = IF LoopCond(attempts') THEN waitStatus
                     ELSE [waitStatus EXCEPT ![cur] = "TimedOut"]
    /\ UNCHANGED <<sharedVars, captionVars, inputs, accessToken, igUserId, template, imageKeys, containerIds,
                   cur, reads, priorPending, lastRead, finishedSeen, errorSeen, platform,
                   trouble, dbReads>>

\* a carousel request that lists the newest container first
CarouselRequestReversed ==
    [role |-> "carousel", image_url |-> <<>>, is_carousel_item |-> FALSE,
     children |-> [i \in DOMAIN containerIds |->
                      containerIds[Len(containerIds) + 1 - i]],
     hasCaption |-> TRUE, access_token |-> accessToken, account |-> igUserId]

\* the body of the POST /media that creates the carousel container
CarouselRequest ==
    [role |-> "carousel", image_url |-> <<>>, is_carousel_item |-> FALSE,
     children |-> containerIds, hasCaption |-> TRUE, access_token |-> accessToken,
     account |-> igUserId]

\* buildCaption, the POST /media of the carousel and the check of its answer
CreateCarousel ==
    /\ pc = "createCarousel"
    /\ mediaReqs' = Append(mediaReqs, CarouselRequest)
    /\ \/ /\ Throw(NetworkFailureMessage)
          /\ trouble' = TroubleNet("createFailed", Len(mediaReqs'))
          /\ UNCHANGED <<containers, pollVars>>
       \/ /\ containers' = Append(containers, [role |-> "carousel", req |-> Len(mediaReqs')])
          /\ StartWait(nextId)
          /\ pc' = "pollCarousel"
          /\ UNCHANGED <<resp, trouble>>
       \/ \E e \in ErrorBodies :
             /\ Throw(formatInstagramError(e, "Failed to create carousel container"))
             /\ trouble' = TroubleBody("createFailed", Len(mediaReqs'), e)
             /\ UNCHANGED <<containers, pollVars>>
    /\ UNCHANGED <<sharedVars, captionVars, inputs, locals, publishReqs, publishAnswer, dbReads>>

\* a publishContainer that always returns the id it was given
PublishedIdSubmitted(dataId, creationId) == creationId

\* return data.id || creationId
PublishedId(dataId, creationId) == IF dataId # 0 THEN dataId ELSE creationId

\* publishContainer and the success Response
PublishContainer ==
    /\ pc = "publish"
    /\ publishReqs' = Append(publishReqs, cur)
    /\ \/ /\ publishAnswer' = [kind |-> "netfail", id |-> 0]
          /\ Throw(NetworkFailureMessage)
          /\ trouble' = TroubleNet("publishFailed", Len(mediaReqs))
       \/ \* not ok; dataId = 0 is an answer without an id
          \E e \in ErrorBodies, dataId \in {0, nextId} :
             /\ publishAnswer' = [kind |-> "notok", id |-> dataId]
             /\ Throw(formatInstagramError(e, "Failed to publish Instagram media."))
             /\ trouble' = TroubleBody("publishFailed", Len(mediaReqs), e)
       \/ \* ok
          \E dataId \in {0, nextId} :
             /\ publishAnswer' = [kind |-> "ok", id |-> dataId]
             /\ pc' = "done"
             /\ resp' = [status |-> 200, error |-> <<>>,
                         publishId |-> PublishedId(dataId, cur)]
             /\ trouble' = trouble
    /\ UNCHANGED <<sharedVars, captionVars, inputs, locals, pollVars, mediaReqs, containers, dbReads>>

Next ==
    \/ ValidateSuperAdmin
    \/ ReadBody
    \/ LoadConfig
    \/ FetchRating
    \/ CreateItem
    \/ PollRead
    \/ PollSleep
    \/ CreateCarousel
    \/ PublishContainer

Spec == Init /\ [][Next]_vars

\* every await of the handler settles: the platform, the identity provider
\* and the database answer or the call rejects, and a sleep ends
\* The requests of FairInit name no images of their own, the images are
\* those of the rating.
FairInit == Init /\ ~body.overrideImageKeys.isArray

FairSpec == FairInit /\ [][Next]_vars /\ WF_vars(Next)

\* ------------------------------------------- buildCaption on its own
\* buildCaption is a pure function: it is applied once to a template and a
\* rating drawn from the sets above, the handler staying idle.
CaptionInit ==
    /\ \/ tplText \in GeneratedTemplates /\ ratingData = NoRating
       \/ tplText \in FixedTemplates /\ ratingData \in RatingDatas
    /\ captionOut = NoCaption
    /\ caller = "super_admin"
    /\ body = [ratingId |-> "r1", overrideImageKeys |-> [isArray |-> FALSE, items |-> <<>>]]
    /\ store = [IG_ACCESS_TOKEN |-> "tokA", IG_USER_ID |-> "igU1", IG_TEMPLATE |-> ""]
    /\ ratingRow = [exists |-> TRUE, imageUrl |-> [kind |-> "null", items |-> <<>>]]
    /\ pc = "caption"
    /\ accessToken = ""
    /\ igUserId = ""
    /\ template = ""
    /\ imageKeys = <<>>
    /\ idx = 0
    /\ containerIds = <<>>
    /\ cur = 0
    /\ attempts = 0
    /\ sleeps = 0
    /\ reads = 0
    /\ priorPending = TRUE
    /\ lastRead = [id |-> 0, status |-> ""]
    /\ finishedSeen = {}
    /\ errorSeen = FALSE
    /\ waitStatus = <<>>
    /\ mediaReqs = <<>>
    /\ publishReqs = <<>>
    /\ containers = <<>>
    /\ trouble = NoTrouble
    /\ resp = NoResp
    /\ publishAnswer = NoAnswer
    /\ dbReads = <<>>
    /\ call = [r \in Calls |-> NoCall]
    /\ update = [NoUpdate EXCEPT !.pc = "off"]
    /\ igMedia = <<>>
    /\ igPosts = <<>>
    /\ used = [r \in Calls |-> {}]
    /\ finished = {}
    /\ initialStore = store
    /\ firstConfigs = NoConfigs

BuildCaption ==
    /\ pc = "caption"
    /\ ~captionOut.done
    /\ captionOut' = [done |-> TRUE, text |-> buildCaption(tplText, ratingData)]
    /\ UNCHANGED <<sharedVars, tplText, ratingData, inputs, locals, pollVars, platform, trouble, resp,
                   dbReads, pc>>

CaptionNext == BuildCaption

CaptionSpec == CaptionInit /\ [][CaptionNext]_vars

\* ------------------------------------- publish requests and a config update
\* Two publish requests for the same rating and one configuration update
\* (POST of config.js) run against the same system_configs and the same
\* platform; their steps interleave at every await.
singleVars == <<captionVars, caller, body, ratingRow, pc, locals, pollVars, platform, trouble,
                resp, dbReads>>

ConfigKeys == {"IG_ACCESS_TOKEN", "IG_USER_ID", "IG_TEMPLATE"}

\* body.token and body.template of the update, trimmed; "" when absent
UpdateTokens == {"", "tokB"}

UpdateTemplates == {"", "tplY"}

\* answers to GET /me/accounts: the id of the linked business account, an
\* answer that is not ok, or a list without a linked account
Discoveries == {"igU2", "notOk", "noAccount"}

\* system_configs before the update: empty, token without account, complete
InitialStores ==
    { [IG_ACCESS_TOKEN |-> "", IG_USER_ID |-> "", IG_TEMPLATE |-> ""],
      [IG_ACCESS_TOKEN |-> "tokA", IG_USER_ID |-> "", IG_TEMPLATE |-> ""],
      [IG_ACCESS_TOKEN |-> "tokA", IG_USER_ID |-> "igU1", IG_TEMPLATE |-> "tplX"] }

\* the images of the rating: one to MaxImages keys
SharedImages ==
    {[i \in 1..n |-> IF i % 2 = 1 THEN "imgA" ELSE "imgB"] : n \in 1..MaxImages}

SharedInit ==
    /\ caller = "super_admin"
    /\ body = [ratingId |-> "r1", overrideImageKeys |-> [isArray |-> FALSE, items |-> <<>>]]
    /\ store \in InitialStores
    /\ ratingRow \in {[exists |-> TRUE, imageUrl |-> [kind |-> "jsonArray", items |-> k]] :
                        k \in SharedImages}
    /\ pc = "shared"
    /\ accessToken = ""
    /\ igUserId = ""
    /\ template = ""
    /\ imageKeys = <<>>
    /\ idx = 0
    /\ containerIds = <<>>
    /\ cur = 0
    /\ attempts = 0
    /\ sleeps = 0
    /\ reads = 0
    /\ priorPending = TRUE
    /\ lastRead = [id |-> 0, status |-> ""]
    /\ finishedSeen = {}
    /\ errorSeen = FALSE
    /\ waitStatus = <<>>
    /\ mediaReqs = <<>>
    /\ publishReqs = <<>>
    /\ containers = <<>>
    /\ trouble = NoTrouble
    /\ resp = NoResp
    /\ publishAnswer = NoAnswer
    /\ dbReads = <<>>
    /\ tplText = <<>>
    /\ ratingData = NoRating
    /\ captionOut = NoCaption
    /\ call = [r \in Calls |-> NoCall]
    /\ update \in {[NoUpdate EXCEPT !.providedToken = t, !.providedTemplate = p] :
                     t \in UpdateTokens, p \in UpdateTemplates}
    /\ igMedia = <<>>
    /\ igPosts = <<>>
    /\ used = [r \in Calls |-> {}]
    /\ finished = {}
    /\ initialStore = store
    /\ firstConfigs = NoConfigs

\* the catch block of onRequestPost for request record c: the Response; the
\* locals of the request are gone
Failed(c, msg) ==
    [NoCall EXCEPT !.pc = "failed", !.after = c.after, !.status = CatchStatus(msg),
                   !.error = msg]

\* the update has answered with success
UpdateDone == update.pc = "done"

\* a handler that keeps the configs of the first request it served
ReadConfigsCached(s, cached) ==
    IF cached.set THEN cached
    ELSE [set |-> TRUE, IG_ACCESS_TOKEN |-> s.IG_ACCESS_TOKEN, IG_USER_ID |-> s.IG_USER_ID,
          IG_TEMPLATE |-> s.IG_TEMPLATE]

\* getConfigValues: one SELECT on system_configs s
ReadConfigs(s, cached) ==
    [set |-> TRUE, IG_ACCESS_TOKEN |-> s.IG_ACCESS_TOKEN, IG_USER_ID |-> s.IG_USER_ID,
     IG_TEMPLATE |-> s.IG_TEMPLATE]

\* A step of a request that touches neither system_configs nor the platform
\* is taken together with the step that follows it.
\* validateSuperAdmin, request.json(), getConfigValues and fetchRating of a
\* publish request of a super admin with a ratingId; the second request
\* arrives after the first
CallLoadConfig(r) ==
    /\ call[r].pc = "idle"
    /\ \A q \in Calls : q < r => call[q].pc # "idle"
    /\ LET configs == ReadConfigs(store, firstConfigs)
           loaded  == [call[r] EXCEPT
                          !.after = UpdateDone,
                          !.accessToken = configs.IG_ACCESS_TOKEN,
                          !.igUserId = configs.IG_USER_ID,
                          !.template = IF configs.IG_TEMPLATE # "" THEN configs.IG_TEMPLATE
                                       ELSE "DEFAULT_TEMPLATE"]
           keys    == ResolveImageKeys(TargetKeys(body.overrideImageKeys),
                                       ParseImageUrl(ratingRow.imageUrl))
       IN  /\ firstConfigs' = IF firstConfigs.set THEN firstConfigs ELSE configs
           /\ call' = [call EXCEPT ![r] =
                          IF ConfigIncomplete(loaded.accessToken, loaded.igUserId)
                          THEN Failed(loaded, ConfigIncompleteMessage)
                          ELSE IF ~ratingRow.exists THEN Failed(loaded, <<"Rating not found.">>)
                          ELSE IF NoImage(keys)
                          THEN Failed(loaded, <<"This rating has no image to publish.">>)
                          ELSE [loaded EXCEPT !.imageKeys = keys.items, !.idx = 1,
                                              !.pc = "createItem"]]
    /\ UNCHANGED <<singleVars, store, update, igMedia, igPosts, used, finished,
                   initialStore>>

\* a request that takes the credentials from system_configs at every call
CredentialsFromStore(r) == <<store.IG_ACCESS_TOKEN, store.IG_USER_ID>>

\* the access_token and the account of the remote calls of request r
Credentials(r) == <<call[r].accessToken, call[r].igUserId>>

CallCreateItem(r) ==
    /\ call[r].pc = "createItem"
    /\ used' = [used EXCEPT ![r] = @ \cup {Credentials(r)}]
    /\ \/ /\ igMedia' = Append(igMedia, [owner |-> r, role |-> "item",
                                         key |-> call[r].imageKeys[call[r].idx],
                                         children |-> <<>>, template |-> ""])
          /\ call' = [call EXCEPT ![r].cur = Len(igMedia'), ![r].attempts = 0,
                                  ![r].pc = "pollItem"]
       \/ /\ call' = [call EXCEPT ![r] =
                         Failed(@, formatInstagramError(NoError, "Failed to upload carousel item"))]
          /\ igMedia' = igMedia
    /\ UNCHANGED <<singleVars, store, update, igPosts, finished, initialStore,
                   firstConfigs>>

\* one turn of the loop of waitForMediaStatus of request r: the status read,
\* the two checks and, for a pending status, the sleep, attempts++ and the
\* loop test
CallPollRead(r) ==
    /\ call[r].pc \in {"pollItem", "pollCarousel"}
    /\ LoopCond(call[r].attempts)
    /\ used' = [used EXCEPT ![r] = @ \cup {Credentials(r)}]
    /\ \E answer \in {"FINISHED", "ERROR", "IN_PROGRESS"} :
         LET c      == call[r]
             class  == ClassifyStatus(answer)
             after  == IF c.pc = "pollItem"
                       THEN AfterItemWait(class = "error", c.idx, Len(c.imageKeys))
                       ELSE AfterCarouselWait(class = "error")
         IN  /\ class = "pending" => c.attempts < MaxPending
             /\ finished' = IF answer = "FINISHED" THEN finished \cup {c.cur} ELSE finished
             /\ call' = [call EXCEPT ![r] =
                   IF class = "pending"
                   THEN IF LoopCond(c.attempts + 1) THEN [@ EXCEPT !.attempts = @ + 1]
                        ELSE Failed([@ EXCEPT !.attempts = @ + 1], TimeoutMessage(c.cur))
                   ELSE IF after = "failed" THEN Failed(@, ProcessingFailedMessage(c.cur))
                   ELSE [@ EXCEPT !.pc = after,
                                  !.attempts = 0,
                                  !.containerIds = IF c.pc = "pollItem" THEN Append(@, c.cur)
                                                   ELSE @,
                                  !.idx = IF after = "createItem" THEN @ + 1 ELSE @]]
    /\ UNCHANGED <<singleVars, store, update, igMedia, igPosts, initialStore, firstConfigs>>

\* the ids of all carousel items on the platform, oldest first
AllItemIds ==
    SelectSeq([i \in 1..Len(igMedia) |-> i], LAMBDA i : igMedia[i].role = "item")

\* a children list that takes every carousel item the platform holds
CarouselChildrenAll(r) == AllItemIds

\* containerIds.join(',')
CarouselChildren(r) == call[r].containerIds

CallCreateCarousel(r) ==
    /\ call[r].pc = "createCarousel"
    /\ used' = [used EXCEPT ![r] = @ \cup {Credentials(r)}]
    /\ \/ /\ igMedia' = Append(igMedia, [owner |-> r, role |-> "carousel", key |-> "",
                                         children |-> CarouselChildren(r),
                                         template |-> call[r].template])
          /\ call' = [call EXCEPT ![r].cur = Len(igMedia'), ![r].attempts = 0,
                                  ![r].pc = "pollCarousel"]
       \/ /\ call' = [call EXCEPT ![r] =
                         Failed(@, formatInstagramError(NoError,
                                                        "Failed to create carousel container"))]
          /\ igMedia' = igMedia
    /\ UNCHANGED <<singleVars, store, update, igPosts, finished, initialStore,
                   firstConfigs>>

\* the oldest carousel container on the platform
FirstCarousel ==
    CHOOSE i \in DOMAIN igMedia :
        /\ igMedia[i].role = "carousel"
        /\ \A j \in DOMAIN igMedia : igMedia[j].role = "carousel" => i <= j

\* a request that publishes the oldest carousel container of the rating
CreationIdFirst(r) == FirstCarousel

\* the creation_id of publishContainer: carouselData.id
CreationId(r) == call[r].cur

CallPublish(r) ==
    /\ call[r].pc = "publish"
    /\ used' = [used EXCEPT ![r] = @ \cup {Credentials(r)}]
    /\ \/ \* ok, the answer carrying the id of the post
          /\ igPosts' = Append(igPosts, [owner |-> r, creation_id |-> CreationId(r)])
          /\ call' = [call EXCEPT ![r].pc = "done", ![r].status = 200,
                                  ![r].publishId = PublishedId(100 + Len(igPosts'),
                                                               CreationId(r))]
       \/ /\ call' = [call EXCEPT ![r] =
                         Failed(@, formatInstagramError(NoError,
                                                        "Failed to publish Instagram media."))]
          /\ igPosts' = igPosts
    /\ UNCHANGED <<singleVars, store, update, igMedia, finished, initialStore,
                   firstConfigs>>

\* the catch block of onRequest of config.js
UpdateFailed(u) == [u EXCEPT !.pc = "failed", !.status = 400]

\* validateSuperAdmin and request.json() of the update, its getConfigValues,
\* finalToken, resolvedUserId and finalTemplate
ReadExisting ==
    /\ update.pc = "idle"
    /\ LET existing   == store
           finalToken == IF update.providedToken # "" THEN update.providedToken
                         ELSE existing.IG_ACCESS_TOKEN
           finalTemplate == IF update.providedTemplate # "" THEN update.providedTemplate
                            ELSE IF existing.IG_TEMPLATE # "" THEN existing.IG_TEMPLATE
                            ELSE "DEFAULT_TEMPLATE"
           u == [update EXCEPT !.finalToken = finalToken,
                               !.resolvedUserId = existing.IG_USER_ID,
                               !.finalTemplate = finalTemplate]
       IN  update' = IF finalToken = "" THEN UpdateFailed(u)
                     ELSE IF update.providedToken # "" THEN [u EXCEPT !.pc = "discover"]
                     ELSE IF u.resolvedUserId = "" THEN UpdateFailed(u)
                     ELSE [u EXCEPT !.pc = "write", !.pending = ConfigKeys]
    /\ UNCHANGED <<singleVars, store, call, igMedia, igPosts, used, finished,
                   initialStore, firstConfigs>>

\* discoverInstagramBusinessId
Discover ==
    /\ update.pc = "discover"
    /\ \E d \in Discoveries :
          update' = IF d \in {"notOk", "noAccount"} THEN UpdateFailed(update)
                    ELSE [update EXCEPT !.resolvedUserId = d, !.pc = "write",
                                        !.pending = ConfigKeys]
    /\ UNCHANGED <<singleVars, store, call, igMedia, igPosts, used, finished,
                   initialStore, firstConfigs>>

\* the value setConfigValue writes for key k
FinalValue(u, k) ==
    IF k = "IG_ACCESS_TOKEN" THEN u.finalToken
    ELSE IF k = "IG_USER_ID" THEN u.resolvedUserId
    ELSE u.finalTemplate

\* the keys written at once when the statements run as one batch (DB.batch)
WriteKeysBatch(pending, k) == pending

\* the keys one statement of setConfigValue writes: its own
WriteKeys(pending, k) == {k}

\* one of the three setConfigValue calls of Promise.all runs its statement;
\* the statements were sent together and run in any order, each succeeds or
\* fails; the first failure rejects Promise.all and the update answers 400,
\* the other statements still run
SetConfigValue(k) ==
    /\ update.pc \in {"write", "failed"}
    /\ k \in update.pending
    /\ LET keys == WriteKeys(update.pending, k)
           rest == update.pending \ keys
       IN  \/ /\ store' = [x \in ConfigKeys |->
                              IF x \in keys THEN FinalValue(update, x) ELSE store[x]]
              /\ update' = [update EXCEPT
                               !.pending = rest,
                               !.pc = IF update.pc = "write" /\ rest = {} THEN "done" ELSE @,
                               !.status = IF update.pc = "write" /\ rest = {} THEN 200 ELSE @]
           \/ /\ store' = store
              /\ update' = [UpdateFailed(update) EXCEPT !.pending = rest]
    /\ UNCHANGED <<singleVars, call, igMedia, igPosts, used, finished,
                   initialStore, firstConfigs>>

SharedNext ==
    \/ \E r \in Calls :
          \/ CallLoadConfig(r)
          \/ CallCreateItem(r)
          \/ CallPollRead(r)
          \/ CallCreateCarousel(r)
          \/ CallPublish(r)
    \/ ReadExisting
    \/ Discover
    \/ \E k \in ConfigKeys : SetConfigValue(k)

SharedSpec == SharedInit /\ [][SharedNext]_vars

\* ------------------------------------------------------------ properties
ItemIds == {id \in DOMAIN containers : containers[id].role = "item"}

CarouselRequested == \E i \in DOMAIN mediaReqs : mediaReqs[i].role = "carousel"

IsTimeout(msg) == Includes(msg, "Timeout waiting for media ")

IsRemoteApiError(msg) ==
    Includes(msg, "Instagram Error: ") \/ Includes(msg, "Media processing failed for container ")

\* C1: with exactly one resolved image a successful publish has created
\* exactly one container, a single non-carousel one carrying the caption, and
\* has published that container; no carousel-item, no carousel container.
C1_SingleImageOneContainer ==
    (pc = "done" /\ Len(imageKeys) = 1) =>
        /\ Len(mediaReqs) = 1
        /\ mediaReqs[1].role \notin {"item", "carousel"}
        /\ ~mediaReqs[1].is_carousel_item
        /\ mediaReqs[1].hasCaption
        /\ Len(containers) = 1
        /\ publishReqs = <<1>>

\* C2: every child id of a carousel creation request is a container for
\* which the poller has read FINISHED before.
C2_CarouselChildrenReady ==
    \A i \in DOMAIN mediaReqs :
        mediaReqs[i].role = "carousel" =>
            \A j \in DOMAIN mediaReqs[i].children :
                /\ mediaReqs[i].children[j] \in finishedSeen
                /\ waitStatus[mediaReqs[i].children[j]] = "Ready"

C2_Witness ==
    \E i \in DOMAIN mediaReqs :
        mediaReqs[i].role = "carousel" /\ Len(mediaReqs[i].children) = 2

\* C3: once the creation or the polling of a container has failed (rejected
\* or failed creation, ERROR or failed status read, attempts exhausted) the
\* request ends in failure, no media_publish call is made and no further
\* POST /media is sent.
C3_FailFast ==
    trouble.kind \in {"createFailed", "pollFailed", "pollExhausted"} =>
        /\ pc \in {"failed"} \cup
                  (IF trouble.kind = "pollExhausted"
                   THEN {"sleepItem", "sleepCarousel"} ELSE {})
        /\ pc = "failed" => resp.status \in {400, 403}
        /\ publishReqs = <<>>
        /\ Len(mediaReqs) = trouble.reqs

C3_Witness ==
    /\ trouble.kind = "pollFailed"
    /\ pc = "failed"
    /\ Len(imageKeys) = 2
    /\ Len(containers) = 1
    /\ waitStatus[1] = "Error"

\* C4: in a publish with several images, a status read of an item container
\* that reports FAILED stops the orchestrator at that read: the request has
\* failed with a remote-API error (not a timeout) naming that container, and
\* no carousel container is requested.
C4_FailedItemAborts ==
    (Len(imageKeys) > 1 /\ lastRead.status = "FAILED" /\ lastRead.id \in ItemIds) =>
        /\ pc = "failed"
        /\ IsRemoteApiError(resp.error)
        /\ ~IsTimeout(resp.error)
        /\ Includes(resp.error, ToString(lastRead.id))
        /\ ~CarouselRequested

\* C5: the first status read that reports FINISHED or READY moves the
\* container to Ready and ends the wait with success.
C5_FinishedOrReadyIsReady ==
    lastRead.status \in {"FINISHED", "READY"} => waitStatus[lastRead.id] = "Ready"

\* C6: a status read that reports ERROR or FAILED makes the poller fail on
\* that read, with no further status read for the container.
C6_ErrorOrFailedFails ==
    lastRead.status \in {"ERROR", "FAILED"} =>
        /\ waitStatus[lastRead.id] = "Error"
        /\ pc = "failed"

\* C7: the poller never makes more than 10 status reads for a container; a
\* read that reports FINISHED after only pending answers ends the wait with
\* success at that read (the k-th, k <= 10); the wait times out only after
\* exactly 10 reads, and after 10 pending answers no further read is made.
C7_TenAttempts ==
    /\ reads <= 10
    /\ (reads > 0 /\ lastRead.status = "FINISHED" /\ priorPending) =>
           waitStatus[cur] = "Ready"
    /\ \A id \in DOMAIN waitStatus :
           waitStatus[id] = "TimedOut" => (id = cur /\ reads = 10)
    /\ (reads = 10 /\ priorPending /\ lastRead.status = "IN_PROGRESS") =>
           \/ pc \in {"sleepItem", "sleepCarousel"}
           \/ waitStatus[cur] = "TimedOut" /\ IsTimeout(resp.error)

C7_Witness ==
    /\ reads = 10
    /\ priorPending
    /\ lastRead.status = "FINISHED"
    /\ waitStatus[cur] = "Ready"

\* C8: a status read that fails, by a network failure or by an API-level
\* error answer without status_code, aborts the polling at once: the request
\* has failed and the container is not polled again.
C8_FailedReadAborts ==
    lastRead.status \in {"NETFAIL", "NONE"} =>
        /\ waitStatus[lastRead.id] = "Error"
        /\ pc = "failed"

\* C9: a container that did not reach Ready within the attempts surfaces as a
\* timeout naming the container, and a timeout is surfaced only then: never
\* for a container whose status read the platform rejected or for which it
\* reported an error status.
C9_TimeoutDistinct ==
    /\ (pc = "failed" /\ cur \in DOMAIN waitStatus /\ waitStatus[cur] = "TimedOut") =>
           /\ IsTimeout(resp.error)
           /\ Includes(resp.error, ToString(cur))
           /\ ~IsRemoteApiError(resp.error)
    /\ (pc = "failed" /\ IsTimeout(resp.error)) => ~errorSeen

\* C10: the POST /media of an item is sent only when the containers of all
\* earlier items have been read FINISHED, and at most one container is being
\* created or polled at any moment.
C10_Sequential ==
    /\ \A i \in DOMAIN mediaReqs :
           mediaReqs[i].role = "item" =>
               \A j \in 1..(i - 1) :
                   \E id \in ItemIds : containers[id].req = j /\ id \in finishedSeen
    /\ Cardinality({id \in DOMAIN waitStatus : waitStatus[id] = "Pending"}) <= 1
    /\ pc \in {"createItem", "createCarousel"} =>
           \A id \in DOMAIN waitStatus : waitStatus[id] # "Pending"

C10_Witness ==
    /\ pc = "pollItem"
    /\ Len(mediaReqs) = 2
    /\ mediaReqs[2].role = "item"
    /\ 1 \in finishedSeen
    /\ waitStatus[2] = "Pending"

\* C11: the item creation requests are sent in the order of the image list
\* (the i-th request carries the URL of the i-th image key) and the children
\* of the carousel request are, in that same order, the ids of the containers
\* the platform returned for these requests.
C11_ChildrenInImageOrder ==
    \A r \in DOMAIN mediaReqs :
        /\ mediaReqs[r].role = "item" =>
               /\ r <= Len(imageKeys)
               /\ mediaReqs[r].image_url = <<Origin, "/api/image/", imageKeys[r]>>
        /\ mediaReqs[r].role = "carousel" =>
               /\ r = Len(imageKeys) + 1
               /\ Len(mediaReqs[r].children) = Len(imageKeys)
               /\ \A i \in DOMAIN imageKeys :
                      /\ mediaReqs[r].children[i] \in ItemIds
                      /\ containers[mediaReqs[r].children[i]].req = i

C11_Witness ==
    /\ imageKeys = <<"imgB", "imgA">>
    /\ Len(mediaReqs) = 3
    /\ mediaReqs[3].role = "carousel"
    /\ mediaReqs[3].children = <<1, 2>>

\* C12: a publish answer that is not a success makes the request fail; after
\* a success answer the returned publishId is the answer's id when it has
\* one and otherwise the container id that was submitted.
C12_PublishId ==
    /\ publishAnswer.kind \in {"notok", "netfail"} =>
           /\ pc = "failed"
           /\ resp.status # 200
           /\ resp.publishId = 0
    /\ publishAnswer.kind = "notok" => Includes(resp.error, "Instagram Error: ")
    /\ publishAnswer.kind = "ok" =>
           /\ pc = "done"
           /\ resp.status = 200
           /\ Len(publishReqs) = 1
           /\ publishAnswer.id # 0 => resp.publishId = publishAnswer.id
           /\ publishAnswer.id = 0 => resp.publishId = publishReqs[1]
    /\ pc = "done" => publishAnswer.kind = "ok"

C12_Witness ==
    /\ pc = "done"
    /\ publishAnswer.kind = "ok"
    /\ publishAnswer.id # 0
    /\ resp.publishId = publishAnswer.id
    /\ resp.publishId # publishReqs[1]

\* C13: when the stored access token or the stored business account id is
\* absent, no call reaches the platform (no POST /media, no status read, no
\* media_publish), and a request of a super admin that names a rating fails
\* at the configuration step with the configuration-incomplete error.
C13_ConfigIncomplete ==
    (store.IG_ACCESS_TOKEN = "" \/ store.IG_USER_ID = "") =>
        /\ mediaReqs = <<>>
        /\ publishReqs = <<>>
        /\ containers = <<>>
        /\ reads = 0 /\ lastRead.id = 0
        /\ pc # "done"
        /\ (caller = "super_admin" /\ body.ratingId # "" /\ pc \notin {"start", "body", "config"}) =>
               /\ pc = "failed"
               /\ resp.status = 400
               /\ resp.error = <<"Instagram configuration is incomplete. Please set the token and business account ID.">>
               /\ dbReads = <<"system_configs">>

C13_Witness ==
    /\ store.IG_ACCESS_TOKEN = "tokA"
    /\ store.IG_USER_ID = ""
    /\ caller = "super_admin"
    /\ body.ratingId = "r1"
    /\ pc = "failed"
    /\ dbReads = <<"system_configs">>

\* C14: a caller whose token is valid but who has no row in users or a role
\* other than super_admin gets the permission-denied failure, and for that
\* request nothing is read from system_configs or ratings and no call reaches
\* the platform.
C14_AuthorizationFirst ==
    caller \in {"unknownUser", "user", "admin"} =>
        /\ pc \in {"start", "failed"}
        /\ pc = "failed" =>
               /\ resp.status = 403
               /\ resp.error = <<"Permission denied", ". Super admin role required.">>
        /\ dbReads = <<>>
        /\ accessToken = "" /\ igUserId = "" /\ template = ""
        /\ mediaReqs = <<>>
        /\ publishReqs = <<>>
        /\ reads = 0 /\ lastRead.id = 0

C14_Witness ==
    /\ caller = "admin"
    /\ pc = "failed"
    /\ resp.status = 403

\* the class of the failure of a failed request, from what happened
FailureClass ==
    IF caller \in {"unknownUser", "user", "admin"} THEN "permission"
    ELSE IF caller # "super_admin" THEN "unauthenticated"
    ELSE IF trouble.kind # "none" THEN "upstream"
    ELSE IF Includes(dbReads, "ratings") /\ ~ratingRow.exists THEN "notFound"
    ELSE "badRequest"

\* C15: the severity of a failure tells its class: a permission failure has
\* the permission severity 403, a bad-request failure (missing ratingId, no
\* image, incomplete configuration) the bad-request severity 400, and a
\* not-found or an upstream failure has neither of these two severities.
C15_SeverityPerClass ==
    pc = "failed" =>
        /\ FailureClass = "permission" => resp.status = 403
        /\ FailureClass = "badRequest" => resp.status = 400
        /\ FailureClass \in {"notFound", "upstream"} => resp.status \notin {400, 403}

\* C16: the image keys a request works with are body.overrideImageKeys when
\* that is a non-empty array, and otherwise the image references stored with
\* the rating; when these are none the request fails with the no-image error
\* and no call reaches the platform.
C16_ImageSet ==
    (Includes(dbReads, "ratings") /\ ratingRow.exists) =>
        LET override == body.overrideImageKeys
            own      == IF ratingRow.imageUrl.kind = "jsonArray"
                        THEN ratingRow.imageUrl.items ELSE <<>>
            expected == IF override.isArray /\ override.items # <<>>
                        THEN override.items ELSE own
        IN  /\ expected = <<>> =>
                   /\ pc = "failed"
                   /\ resp.error = <<"This rating has no image to publish.">>
                   /\ resp.status = 400
                   /\ mediaReqs = <<>> /\ publishReqs = <<>> /\ reads = 0
            /\ expected # <<>> =>
                   /\ imageKeys = expected
                   /\ resp.error # <<"This rating has no image to publish.">>
                   /\ \A r \in DOMAIN mediaReqs :
                          mediaReqs[r].role = "item" =>
                              mediaReqs[r].image_url[3] = expected[r]

C16_Witness ==
    /\ body.overrideImageKeys = [isArray |-> TRUE, items |-> <<"imgB">>]
    /\ ratingRow.imageUrl = [kind |-> "jsonArray", items |-> <<"imgA", "imgA">>]
    /\ Len(mediaReqs) = 1
    /\ mediaReqs[1].image_url[3] = "imgB"

\* C17: within a request at most one item creation request is sent per
\* image, at most one carousel creation request and at most one media_publish
\* request; after a creation or publish call has failed no further POST is
\* sent; only the status read is repeated, at most 10 times per container.
C17_NoRetry ==
    /\ \A r \in DOMAIN mediaReqs : mediaReqs[r].role = "item" => r <= Len(imageKeys)
    /\ Cardinality({r \in DOMAIN mediaReqs : mediaReqs[r].role = "item"}) <= Len(imageKeys)
    /\ Cardinality({r \in DOMAIN mediaReqs : mediaReqs[r].role = "carousel"}) <= 1
    /\ Len(publishReqs) <= 1
    /\ Len(containers) <= Len(imageKeys) + 1
    /\ trouble.kind = "createFailed" =>
           /\ pc = "failed"
           /\ Len(mediaReqs) = trouble.reqs
           /\ publishReqs = <<>>
    /\ trouble.kind = "publishFailed" =>
           /\ pc = "failed"
           /\ Len(mediaReqs) = trouble.reqs
           /\ Len(publishReqs) = 1
    /\ reads <= 10

C17_Witness ==
    /\ trouble.kind = "createFailed"
    /\ pc = "failed"
    /\ Len(mediaReqs) = 3
    /\ mediaReqs[3].role = "carousel"

\* C18: a failure that comes from a platform answer (a rejected container or
\* carousel creation, a status read reporting an error, a rejected
\* media_publish) reaches the caller as a message that starts with the marker
\* of formatInstagramError.
C18_PlatformFailuresClassified ==
    (pc = "failed" /\ trouble.kind \in {"createFailed", "pollFailed", "publishFailed"}
                   /\ ~trouble.net) =>
        /\ resp.error # <<>>
        /\ resp.error[1] = "Instagram Error: "

\* the default message of the call that was rejected
RejectedCallFallback ==
    IF trouble.kind = "publishFailed" THEN "Failed to publish Instagram media."
    ELSE IF mediaReqs[Len(mediaReqs)].role = "item" THEN "Failed to upload carousel item"
    ELSE "Failed to create carousel container"

\* the labelled fields of an error object that are present, in the order
\* type, code, subcode, trace id
PresentFields(e) ==
    (IF e.type # "" THEN << <<"Type: ", e.type>> >> ELSE <<>>) \o
    (IF e.code # 0 THEN << <<"Code: ", ToString(e.code)>> >> ELSE <<>>) \o
    (IF e.error_subcode # 0 THEN << <<"Subcode: ", ToString(e.error_subcode)>> >> ELSE <<>>) \o
    (IF e.fbtrace_id # "" THEN << <<"Trace ID: ", e.fbtrace_id>> >> ELSE <<>>)

\* C19: the message of a rejected platform call is the marker, then the
\* error object's message or, without one, the default message of the call,
\* then for each of type, code, subcode and trace id that is present, in this
\* order, the separator " | " and the labelled field; nothing else.
C19_ClassifierFormat ==
    (pc = "failed" /\ trouble.kind \in {"createFailed", "publishFailed"} /\ ~trouble.net) =>
        LET e      == trouble.body
            fields == PresentFields(e)
            msg    == resp.error
        IN  /\ Len(msg) = 2 + 3 * Len(fields)
            /\ msg[1] = "Instagram Error: "
            /\ msg[2] = (IF e.message # "" THEN e.message ELSE RejectedCallFallback)
            /\ \A k \in DOMAIN fields :
                   /\ msg[3 * k] = " | "
                   /\ msg[3 * k + 1] = fields[k][1]
                   /\ msg[3 * k + 2] = fields[k][2]

C19_Witness ==
    /\ pc = "failed"
    /\ trouble.kind = "createFailed"
    /\ resp.error = <<"Instagram Error: ", "Failed to upload carousel item", " | ",
                      "Code: ", "190", " | ", "Trace ID: ", "TR1">>

\* a placeholder in a text: two opening braces, a name without braces, two
\* closing braces
HasPlaceholder(s) ==
    \E i, j \in DOMAIN s :
        /\ j >= i + 3
        /\ j + 1 <= Len(s)
        /\ s[i] = "{" /\ s[i + 1] = "{"
        /\ s[j] = "}" /\ s[j + 1] = "}"
        /\ \A k \in (i + 2)..(j - 1) : s[k] \notin {"{", "}"}

\* C20: whatever the template and the rating, the composed caption contains
\* no placeholder.
C20_NoPlaceholderLeft ==
    captionOut.done => ~HasPlaceholder(captionOut.text)

\* the text of a stored score under the rule of two decimals at most, the
\* trailing zeros trimmed, and nothing for an absent or non-finite score
TrimmedScore(column) ==
    IF column.kind # "number" THEN <<>>
    ELSE IF column.n = 0 THEN <<"0">>
    ELSE IF column.n = 7000 THEN <<"7">>
    ELSE IF column.n = 12300 THEN <<"12", ".", "3">>
    ELSE <<"12", ".", "3", "5">>

\* C21: in the caption composed for a rating the score placeholder becomes
\* the empty string when the stored score is absent or not a finite number,
\* and the number with at most two decimals, trailing zeros trimmed, otherwise.
C21_ScoreField ==
    \A column \in Scores :
        (captionOut.done /\ tplText = ScoreTemplate /\ ratingData.score = ScoreOfColumn(column))
            => captionOut.text = TrimmedScore(column)

\* C24: every publish request ends with a Response; every wait makes at most
\* maxAttempts status reads and there is at most one wait per resolved image
\* plus one for the carousel, so at most 10 x (N + 1) status reads in all.
C24_Terminates ==
    /\ <>(resp.status # 0)
    /\ [](/\ reads <= maxAttempts
          /\ Len(waitStatus) <= Len(imageKeys) + 1
          /\ (resp.status # 0 => pc \in {"done", "failed"}))

C24_Witness ==
    /\ resp.status # 0
    /\ Len(imageKeys) = MaxImages
    /\ Len(waitStatus) = Len(imageKeys) + 1
    /\ reads = maxAttempts
    /\ waitStatus[cur] = "TimedOut"

\* C25: no sleep follows the last permitted attempt: a wait that has timed
\* out has made maxAttempts reads and has slept maxAttempts - 1 times.
C25_NoSleepAfterLastAttempt ==
    /\ sleeps <= maxAttempts - 1
    /\ (cur # 0 /\ waitStatus[cur] = "TimedOut") =>
          (reads = maxAttempts /\ sleeps = maxAttempts - 1)

\* the callers that the role check of validateSuperAdmin turns away
FailsRoleCheck(c) == c \in {"unknownUser", "user", "admin"}

\* C26: the Response has status 403 if and only if the caller failed the
\* super-admin role check.
C26_ForbiddenOnlyForRole ==
    resp.status # 0 => (resp.status = 403 <=> FailsRoleCheck(caller))

\* the credentials the update has decided to write
UpdatedCredentials == <<update.finalToken, update.resolvedUserId>>

\* the carousel creation requests of request r
CarouselsOf(r) == {i \in DOMAIN igMedia : igMedia[i].owner = r /\ igMedia[i].role = "carousel"}

\* C22: a publish request that reads the configs after a configuration update
\* has completed uses the token, the business account id and the template of
\* that update, in every remote call and in its caption, whatever an earlier
\* publish request has read.
C22_FreshConfig ==
    \A r \in Calls :
        call[r].after =>
            /\ used[r] \subseteq {UpdatedCredentials}
            /\ call[r].pc # "failed" =>
                  /\ Credentials(r) = UpdatedCredentials
                  /\ call[r].template = update.finalTemplate
            /\ \A i \in CarouselsOf(r) : igMedia[i].template = update.finalTemplate

C22_Witness ==
    /\ call[1].pc = "done" /\ ~call[1].after
    /\ call[2].pc = "done" /\ call[2].after
    /\ call[1].accessToken # call[2].accessToken
    /\ call[1].igUserId # call[2].igUserId
    /\ call[1].template # call[2].template
    /\ igPosts[1].owner = 1

\* the posts of request r
PostsOf(r) == {p \in DOMAIN igPosts : igPosts[p].owner = r}

\* C23: two publish requests for the same ratingId that both succeed have
\* each made their own media_publish call for their own carousel container
\* built from their own item containers: two independent posts.
C23_NoDeduplication ==
    (\A r \in Calls : call[r].pc = "done") =>
        /\ Len(igPosts) = Cardinality(Calls)
        /\ \A p, q \in DOMAIN igPosts : p # q => igPosts[p].creation_id # igPosts[q].creation_id
        /\ \A r \in Calls :
              \E p \in PostsOf(r) :
                 LET c == igPosts[p].creation_id
                 IN  /\ igMedia[c].owner = r
                     /\ igMedia[c].role = "carousel"
                     /\ \A i \in DOMAIN igMedia[c].children :
                           igMedia[igMedia[c].children[i]].owner = r

C23_Witness ==
    /\ \A r \in Calls : call[r].pc = "done"
    /\ Len(igPosts) = 2
    /\ igMedia[1].owner = 1
    /\ igMedia[2].owner = 2
    /\ igMedia[3].owner = 1

\* C27: all remote calls of one publish request carry the access token and
\* the business account id the request has read, also when system_configs
\* changes while the request runs.
C27_OneSnapshot ==
    \A r \in Calls :
        /\ Cardinality(used[r]) <= 1
        /\ call[r].pc \notin {"idle", "failed"} => used[r] \subseteq {Credentials(r)}

C27_Witness ==
    /\ call[1].pc = "done" /\ ~call[1].after
    /\ call[2].pc = "done" /\ call[2].after
    /\ igPosts[1].owner = 2
    /\ store.IG_ACCESS_TOKEN # call[1].accessToken
    /\ used[1] = {Credentials(1)}

\* C28: the token and the business account id a publish request has read are
\* both those of before the update or both those of the update.
C28_NoMixedCredentials ==
    \A r \in Calls :
        call[r].pc \notin {"idle", "failed"} =>
            Credentials(r) \in {<<initialStore.IG_ACCESS_TOKEN, initialStore.IG_USER_ID>>,
                                UpdatedCredentials}

\* C29: an update that has answered with an error leaves system_configs as it
\* was; after an update that has answered with success the token and the
\* business account id are not empty and no publish request that reads the
\* configs afterwards fails with the configuration-incomplete error.
C29_UpdateAllOrNothing ==
    /\ update.status = 400 => store = initialStore
    /\ update.status = 200 =>
          /\ store.IG_ACCESS_TOKEN # "" /\ store.IG_USER_ID # ""
          /\ \A r \in Calls : call[r].after => call[r].error # ConfigIncompleteMessage

\* C30: a publish request that has answered with success has made exactly one
\* media_publish call, for its carousel container, which was read FINISHED;
\* the children of that container are one item container per resolved image
\* key, in order, each created by this request for that key.
C30_OwnChildrenOnly ==
    \A r \in Calls :
        call[r].status = 200 =>
            /\ Cardinality(PostsOf(r)) = 1
            /\ \A p \in PostsOf(r) :
                  LET c == igMedia[igPosts[p].creation_id]
                  IN  /\ c.owner = r
                      /\ c.role = "carousel"
                      /\ igPosts[p].creation_id \in finished
                      /\ Len(c.children) = Len(call[r].imageKeys)
                      /\ \A i \in DOMAIN c.children :
                            /\ igMedia[c.children[i]].owner = r
                            /\ igMedia[c.children[i]].role = "item"
                            /\ igMedia[c.children[i]].key = call[r].imageKeys[i]
                            /\ c.children[i] \in finished

C30_Witness ==
    /\ call[1].status = 200
    /\ Len(call[1].imageKeys) = MaxImages
    /\ igMedia[1].owner = 1
    /\ igMedia[2].owner = 2
    /\ igMedia[2].role = "item"
    /\ call[2].pc \in {"pollItem", "createItem", "failed"}
====
